---- MODULE Spec2Model ----
(***************************************************************************)
(* MAP adaptation of a Gaussian mixture model:                             *)
(* bob::trainer::MAP_GMMTrainer (src/src/cxx/trainer/src/MAP_GMMTrainer.cc)*)
(*                                                                         *)
(* A double is modelled exactly, without rounding, as a triple             *)
(* <<num, den, exp>> standing for (num/den) * 2^exp with num and den odd   *)
(* and coprime (zero is <<0,1,0>>).  The binary exponent keeps counts of   *)
(* 2^31 and more inside the range of the checker's integers.  The three    *)
(* non-finite doubles have den = 0: NaN, PInf, NInf.  Signed zeros are not *)
(* distinguished: every zero divisor of the code is a count or a sum of    *)
(* counts, hence +0.                                                       *)
(***************************************************************************)
EXTENDS Integers, Sequences, FiniteSets, TLC

\* ------------------------------------------------------------- bounds
MaxGaussians == 2
MaxInputs == 1

\* ------------------------------------------------- double arithmetic
NaN == <<0, 0, 0>>
PInf == <<1, 0, 0>>
NInf == <<-1, 0, 0>>
Zero == <<0, 1, 0>>
One == <<1, 1, 0>>

Abs(x) == IF x < 0 THEN -x ELSE x

Min(a, b) == IF a < b THEN a ELSE b

RECURSIVE GCD(_, _)
GCD(a, b) == IF b = 0 THEN a ELSE GCD(b, a % b)

RECURSIVE Twos(_)
Twos(n) == IF n % 2 = 0 THEN 1 + Twos(n \div 2) ELSE 0

\* (n/d) * 2^e in normal form; d # 0.
Norm(n, d, e) ==
  IF n = 0 THEN Zero
  ELSE LET s == IF d < 0 THEN -1 ELSE 1
           g == GCD(Abs(n), Abs(d))
           n1 == Abs(n) \div g
           d1 == Abs(d) \div g
           tn == Twos(n1)
           td == Twos(d1)
           sg == IF n < 0 THEN -s ELSE s
       IN  <<sg * (n1 \div (2 ^ tn)), d1 \div (2 ^ td), (e + tn) - td>>

Dbl(n) == Norm(n, 1, 0)
Frac(n, d) == Norm(n, d, 0)
Scaled(n, e) == Norm(n, 1, e)

IsNaN(x) == x = NaN
IsInf(x) == x = PInf \/ x = NInf
Sign(x) == IF x[1] > 0 THEN 1 ELSE IF x[1] < 0 THEN -1 ELSE 0
SignedInf(s) == IF s > 0 THEN PInf ELSE NInf

Neg(x) == <<-x[1], x[2], x[3]>>

Add(a, b) ==
  IF IsNaN(a) \/ IsNaN(b) THEN NaN
  ELSE IF IsInf(a) THEN (IF IsInf(b) /\ a # b THEN NaN ELSE a)
  ELSE IF IsInf(b) THEN b
  ELSE IF a = Zero THEN b
  ELSE IF b = Zero THEN a
  ELSE LET e == Min(a[3], b[3])
       IN  Norm(a[1] * (2 ^ (a[3] - e)) * b[2] + b[1] * (2 ^ (b[3] - e)) * a[2],
                a[2] * b[2], e)

Sub(a, b) == Add(a, Neg(b))

Mul(a, b) ==
  IF IsNaN(a) \/ IsNaN(b) THEN NaN
  ELSE IF IsInf(a) \/ IsInf(b)
       THEN (IF a = Zero \/ b = Zero THEN NaN ELSE SignedInf(Sign(a) * Sign(b)))
  ELSE Norm(a[1] * b[1], a[2] * b[2], a[3] + b[3])

Div(a, b) ==
  IF IsNaN(a) \/ IsNaN(b) THEN NaN
  ELSE IF IsInf(a) THEN (IF IsInf(b) THEN NaN
                         ELSE SignedInf(Sign(a) * (IF Sign(b) < 0 THEN -1 ELSE 1)))
  ELSE IF IsInf(b) THEN Zero
  ELSE IF b = Zero THEN (IF a = Zero THEN NaN ELSE SignedInf(Sign(a)))
  ELSE Norm(a[1] * b[2], a[2] * b[1], a[3] - b[3])

Pow2(a) == Mul(a, a)

\* a < b on doubles: false as soon as one side is NaN.
Less(a, b) ==
  IF IsNaN(a) \/ IsNaN(b) THEN FALSE
  ELSE IF a = b THEN FALSE
  ELSE IF a = NInf \/ b = PInf THEN TRUE
  ELSE IF a = PInf \/ b = NInf THEN FALSE
  ELSE Sign(Sub(a, b)) < 0

RECURSIVE SumSeq(_)
SumSeq(s) == IF Len(s) = 0 THEN Zero ELSE Add(Head(s), SumSeq(Tail(s)))

\* ------------------------------------------------------ integer cast
Int32Bits == 32

\* (int32_t)T for a non-negative integer T = m * 2^e held as <<m, 1, e>>:
\* T modulo 2^32, read as a two's-complement number.
CastInt32(T) ==
  IF T = Zero \/ T[3] >= Int32Bits THEN Zero
  ELSE IF T[3] = Int32Bits - 1 THEN Scaled(-1, Int32Bits - 1)
  ELSE LET top == 2 ^ ((Int32Bits - 2) - T[3])
           hi == T[1] \div top
           lo == T[1] % top
           b30 == hi % 2
           b31 == (hi \div 2) % 2
       IN  Norm((b30 - 2 * b31) * top + lo, 1, T[3])

\* ------------------------------------------------------------ objects
NULL == "NULL"
PriorObjects == {"ubm1", "ubm2"}
AdaptedObjects == {"gmm"}
Machines == PriorObjects \cup AdaptedObjects

Row(D, v) == [j \in 1..D |-> v]
Grid(K, D, v) == [i \in 1..K |-> Row(D, v)]

\* The universal background models handed to setPriorGMM.  ubm1 is the prior
\* of scenario A (uniform weights, zero means, unit variances).
Ubm1(K, D) ==
  [weights |-> [i \in 1..K |-> Frac(1, K)],
   means |-> Grid(K, D, Zero),
   variances |-> Grid(K, D, One)]

Ubm2(K, D) ==
  [weights |-> [i \in 1..K |-> Frac(2 * i, K * (K + 1))],
   means |-> [i \in 1..K |-> [j \in 1..D |-> Dbl(i + j)]],
   variances |-> [i \in 1..K |-> Row(D, Dbl(i))]]

\* What the machine being adapted holds before the trainer touches it; it
\* differs from both priors in every parameter.
InitialModel(K, D) ==
  [weights |-> [i \in 1..K |-> Frac(2 * ((K + 1) - i), K * (K + 1))],
   means |-> Grid(K, D, Dbl(-1)),
   variances |-> Grid(K, D, Frac(1, 2))]

\* What a read through a wild pointer may deliver as the parameters of a machine.
JunkModels(K, D) ==
  {[weights |-> [i \in 1..K |-> NaN],
    means |-> Grid(K, D, Dbl(7)),
    variances |-> Grid(K, D, Dbl(-3))]}

getNGaussians(m) == Len(m.weights)
getNInputs(m) == Len(m.means[1])

setWeights(m, w) == [m EXCEPT !.weights = w]
setMeans(m, a) == [m EXCEPT !.means = a]
setVariances(m, a) == [m EXCEPT !.variances = a]

\* --------------------------------------------------------- statistics
\* GMMStats of shape (K, D), all accumulators zero.
ZeroStats(K, D) ==
  [n |-> [i \in 1..K |-> Zero], T |-> Zero,
   sumPx |-> Grid(K, D, Zero), sumPxx |-> Grid(K, D, Zero)]

StatsSized(ss, K, D) ==
  /\ Len(ss.n) = K
  /\ Len(ss.sumPx) = K
  /\ \A i \in 1..K : Len(ss.sumPx[i]) = D /\ Len(ss.sumPxx[i]) = D

\* <<relevance factor, responsibilities threshold>> given to the constructor.
Tunings == {<<Dbl(16), Zero>>, <<Dbl(16), Dbl(16)>>, <<Scaled(1, 31), Zero>>}
T3Alphas == {Frac(1, 2)}

\* Occupancies an E-step may accumulate.  The relevance factor and the counts
\* of one run are kept within a factor of 2^4 of each other, where the exact
\* arithmetic stays inside the integers of the checker: a full component
\* holds as many points as the relevance factor, the first component may
\* hold none or (below 2^31) half as many, or the last component holds none.
FullCount(r) == r
FirstCounts(r) ==
  IF Less(r, Scaled(1, 31)) THEN {Zero, Mul(r, Frac(1, 2)), r} ELSE {Zero, r}
CountVectors(K, r) ==
  {[i \in 1..K |-> IF i = 1 THEN a ELSE FullCount(r)] : a \in FirstCounts(r)}
    \cup {[i \in 1..K |-> IF i = K THEN Zero ELSE FullCount(r)]}

\* First and second moments of dimension j for a component of occupancy c:
\* the half-full component has all its mass at 2j, any other one has ML mean j
\* and second moment 2j^2.
SumPxOf(c, j, r) ==
  IF c = Mul(r, Frac(1, 2)) THEN Mul(c, Dbl(2 * j)) ELSE Mul(c, Dbl(j))
SumPxxOf(c, j, r) ==
  IF c = Mul(r, Frac(1, 2)) THEN Mul(c, Dbl(4 * j * j)) ELSE Mul(c, Dbl(2 * j * j))

\* The statistics of occupancies ns: T is the number of points, the sum of
\* the occupancies.
StatsOf(ns, D, r) ==
  [n |-> ns, T |-> SumSeq(ns),
   sumPx |-> [i \in 1..Len(ns) |-> [j \in 1..D |-> SumPxOf(ns[i], j, r)]],
   sumPxx |-> [i \in 1..Len(ns) |-> [j \in 1..D |-> SumPxxOf(ns[i], j, r)]]]

StatsDomain(K, D, r) == {StatsOf(ns, D, r) : ns \in CountVectors(K, r)}

\* -------------------------------------------------------------- state
VARIABLES
  machines,          \* the GMMMachine objects: name -> weights, means, variances
  m_prior_gmm,       \* the trainer's pointer to the prior machine, or NULL
  m_ss,              \* the trainer's sufficient statistics (GMMStats)
  relevance_factor,
  update_means,
  update_variances,
  update_weights,
  m_mean_var_update_responsibilities_threshold,
  m_T3_alpha,
  m_T3_adaptation,
  m_cache_alpha,
  m_cache_ml_weights,
  m_cache_new_weights,
  m_cache_ml_means,
  m_cache_prior_means,
  m_cache_new_means,
  m_cache_prior_variances,
  m_cache_Exx,
  m_cache_means,
  ret,               \* how the last call came back to its caller
  pc                 \* "ready", or "crashed" once the process has been killed

config == <<relevance_factor, update_means, update_variances, update_weights,
            m_mean_var_update_responsibilities_threshold>>
t3 == <<m_T3_alpha, m_T3_adaptation>>
weightCaches == <<m_cache_ml_weights, m_cache_new_weights>>
meanCaches == <<m_cache_ml_means, m_cache_new_means>>
varianceCaches == <<m_cache_prior_variances, m_cache_Exx, m_cache_means>>
caches == <<m_cache_alpha, weightCaches, meanCaches, m_cache_prior_means, varianceCaches>>
vars == <<machines, m_prior_gmm, m_ss, config, t3, caches, ret, pc>>

\* The trainer after MAP_GMMTrainer(relevance_factor, update_means,
\* update_variances, update_weights, threshold), next to the machines its
\* caller holds; every machine has the same K Gaussians and D inputs.
Init ==
  /\ \E K \in 1..MaxGaussians, D \in 1..MaxInputs :
       machines = [o \in Machines |->
                     IF o = "ubm1" THEN Ubm1(K, D)
                     ELSE IF o = "ubm2" THEN Ubm2(K, D) ELSE InitialModel(K, D)]
  /\ \E t \in Tunings :
       /\ relevance_factor = t[1]
       /\ m_mean_var_update_responsibilities_threshold = t[2]
  /\ update_means \in BOOLEAN
  /\ update_variances \in BOOLEAN
  /\ update_weights \in BOOLEAN
  /\ m_prior_gmm = NULL
  /\ m_T3_alpha = Zero
  /\ m_T3_adaptation = FALSE
  /\ m_ss = ZeroStats(0, 0)
  /\ m_cache_alpha = <<>>
  /\ m_cache_ml_weights = <<>>
  /\ m_cache_new_weights = <<>>
  /\ m_cache_ml_means = <<>>
  /\ m_cache_prior_means = <<>>
  /\ m_cache_new_means = <<>>
  /\ m_cache_prior_variances = <<>>
  /\ m_cache_Exx = <<>>
  /\ m_cache_means = <<>>
  /\ ret = "ok"
  /\ pc = "ready"

\* ------------------------------------------------------ setPriorGMM
\* setPriorGMM without its early return: the null pointer is stored too.
setPriorGMM_StoresNull(prior_gmm) ==
  /\ pc = "ready"
  /\ m_prior_gmm' = prior_gmm
  /\ ret' = IF prior_gmm = NULL THEN "false" ELSE "true"
  /\ UNCHANGED <<machines, m_ss, config, t3, caches, pc>>

setPriorGMM(prior_gmm) ==
  /\ pc = "ready"
  /\ IF prior_gmm = NULL
     THEN /\ ret' = "false"
          /\ UNCHANGED m_prior_gmm
     ELSE /\ m_prior_gmm' = prior_gmm
          /\ ret' = "true"
  /\ UNCHANGED <<machines, m_ss, config, t3, caches, pc>>

\* ------------------------------------------------------ setT3MAP
\* The caller selects the adaptation mode while it configures the trainer,
\* before initialization has sized the statistics.
setT3MAP(alpha) ==
  /\ pc = "ready"
  /\ StatsSized(m_ss, 0, 0)
  /\ m_T3_alpha' = alpha
  /\ m_T3_adaptation' = TRUE
  /\ ret' = "ok"
  /\ UNCHANGED <<machines, m_prior_gmm, m_ss, config, caches, pc>>

\* ------------------------------------------------------ initialization
\* Line 39 dereferences m_prior_gmm without a check.  With a null pointer that
\* is undefined behaviour, after line 37 has already resized the statistics:
\* the process is killed, or the reads through the null pointer deliver
\* arbitrary parameters that are then stored in gmm.
\* Lines 39-43 without line 42: ar2 still holds the prior means when it is
\* stored as the variances.
CopyPrior_StaleBuffer(gmm, prior) ==
  setVariances(setMeans(setWeights(machines[gmm], prior.weights), prior.means),
               prior.means)

\* Lines 39-43: the parameters of the prior, stored in gmm.
CopyPrior(gmm, prior) ==
  setVariances(setMeans(setWeights(machines[gmm], prior.weights), prior.means),
               prior.variances)

\* Lines 39-43 with source and destination exchanged: the setters are called
\* on the prior with the parameters of gmm.
Initialized_IntoPrior(gmm) ==
  [machines EXCEPT ![m_prior_gmm] = machines[gmm]]

\* The machines after lines 39-43.
Initialized(gmm) ==
  [machines EXCEPT ![gmm] = CopyPrior(gmm, machines[m_prior_gmm])]

initialization(gmm) ==
  /\ pc = "ready"
  /\ m_ss' = ZeroStats(getNGaussians(machines[gmm]), getNInputs(machines[gmm]))
  /\ IF m_prior_gmm # NULL
     THEN /\ machines' = Initialized(gmm)
          /\ ret' = "ok"
          /\ pc' = "ready"
     ELSE \/ /\ pc' = "crashed"
             /\ ret' = "SIGSEGV"
             /\ UNCHANGED machines
          \/ /\ \E junk \in JunkModels(getNGaussians(machines[gmm]),
                                       getNInputs(machines[gmm])) :
                  machines' = [machines EXCEPT ![gmm] = junk]
             /\ ret' = "ok"
             /\ pc' = "ready"
  /\ UNCHANGED <<m_prior_gmm, config, t3, caches>>

\* ------------------------------------------------------ eStep
\* The E-step of the base trainer: it accumulates fresh statistics of the
\* data against gmm into m_ss, which initialization has sized.
eStep(gmm) ==
  /\ pc = "ready"
  /\ StatsSized(m_ss, getNGaussians(machines[gmm]), getNInputs(machines[gmm]))
  /\ m_ss' \in StatsDomain(getNGaussians(machines[gmm]), getNInputs(machines[gmm]),
                           relevance_factor)
  /\ ret' = "ok"
  /\ UNCHANGED <<machines, m_prior_gmm, config, t3, caches, pc>>

\* ------------------------------------------------------ mStep
\* Lines 66-70 without the test of line 67: the coefficient is taken from the
\* occupancies even when a fixed one was set.
CacheAlpha_DataDependent(ss, n_gaussians) ==
  [i \in 1..n_gaussians |-> Div(ss.n[i], Add(ss.n[i], relevance_factor))]

\* Lines 66-70: the adaptation coefficient of every Gaussian.
CacheAlpha(ss, n_gaussians) ==
  [i \in 1..n_gaussians |->
     IF m_T3_adaptation THEN m_T3_alpha
     ELSE Div(ss.n[i], Add(ss.n[i], relevance_factor))]

\* Line 78: the maximum likelihood weights.
MLWeights(ss, n_gaussians) ==
  [i \in 1..n_gaussians |-> Div(ss.n[i], CastInt32(ss.T))]

\* Lines 85-89: blend with the prior weights, then divide by the sum gamma.
NewWeights(alpha, ml_weights, prior_weights) ==
  LET new_weights == [i \in 1..Len(alpha) |->
                        Add(Mul(alpha[i], ml_weights[i]),
                            Mul(Sub(One, alpha[i]), prior_weights[i]))]
      gamma == SumSeq(new_weights)
  IN  [i \in 1..Len(alpha) |-> Div(new_weights[i], gamma)]

\* Line 102: the maximum likelihood means, for every Gaussian.
MLMeans(ss, n_gaussians, n_inputs) ==
  [i \in 1..n_gaussians |-> [j \in 1..n_inputs |-> Div(ss.sumPx[i][j], ss.n[i])]]

\* Lines 110-118 with the threshold test dropped: every Gaussian is blended.
NewMeans_NoFallback(ss, alpha, ml_means, prior_means) ==
  [i \in 1..Len(alpha) |->
     [j \in 1..Len(prior_means[i]) |->
        Add(Mul(alpha[i], ml_means[i][j]),
            Mul(Sub(One, alpha[i]), prior_means[i][j]))]]

\* Lines 110-118.
NewMeans(ss, alpha, ml_means, prior_means) ==
  [i \in 1..Len(alpha) |->
     IF Less(ss.n[i], m_mean_var_update_responsibilities_threshold)
     THEN prior_means[i]
     ELSE [j \in 1..Len(prior_means[i]) |->
             Add(Mul(alpha[i], ml_means[i][j]),
                 Mul(Sub(One, alpha[i]), prior_means[i][j]))]]

\* Line 134: E_i(x^2), for every Gaussian.
Exx(ss, n_gaussians, n_inputs) ==
  [i \in 1..n_gaussians |-> [j \in 1..n_inputs |-> Div(ss.sumPxx[i][j], ss.n[i])]]

\* Lines 144-152 subtracting the square of the prior mean, not of the mean
\* read back from gmm.
NewVariances_PriorMean(ss, alpha, cache_Exx, prior_variances, prior_means, means) ==
  [i \in 1..Len(alpha) |->
     IF Less(ss.n[i], m_mean_var_update_responsibilities_threshold)
     THEN [j \in 1..Len(means[i]) |->
             Sub(Add(prior_variances[i][j], prior_means[i][j]),
                 Pow2(prior_means[i][j]))]
     ELSE [j \in 1..Len(means[i]) |->
             Sub(Add(Mul(alpha[i], cache_Exx[i][j]),
                     Mul(Sub(One, alpha[i]),
                         Add(prior_variances[i][j], prior_means[i][j]))),
                 Pow2(prior_means[i][j]))]]

\* Lines 144-152.
NewVariances(ss, alpha, cache_Exx, prior_variances, prior_means, means) ==
  [i \in 1..Len(alpha) |->
     IF Less(ss.n[i], m_mean_var_update_responsibilities_threshold)
     THEN [j \in 1..Len(means[i]) |->
             Sub(Add(prior_variances[i][j], prior_means[i][j]), Pow2(means[i][j]))]
     ELSE [j \in 1..Len(means[i]) |->
             Sub(Add(Mul(alpha[i], cache_Exx[i][j]),
                     Mul(Sub(One, alpha[i]),
                         Add(prior_variances[i][j], prior_means[i][j]))),
                 Pow2(means[i][j]))]]

\* What a read beyond the end of an array may deliver as statistics.
JunkStats(K, D) ==
  {[n |-> [i \in 1..K |-> Mul(relevance_factor, Frac(1, 4))], T |-> Zero,
    sumPx |-> Grid(K, D, Mul(relevance_factor, Dbl(5))),
    sumPxx |-> Grid(K, D, Mul(relevance_factor, Dbl(-7)))]}

\* What the array expressions of mStep read from m_ss.  They index m_ss.n,
\* m_ss.sumPx and m_ss.sumPxx by the shape of gmm; while m_ss still has the
\* shape (0,0) of the constructor these reads are out of bounds and deliver
\* arbitrary values (T is a scalar and is read as it is).
StatsRead(n_gaussians, n_inputs) ==
  IF StatsSized(m_ss, n_gaussians, n_inputs) THEN {m_ss}
  ELSE {[s EXCEPT !.T = m_ss.T] : s \in JunkStats(n_gaussians, n_inputs)}

\* Lines 62-156 with line 138 moved in front of the mean update: the variances
\* are computed from the means gmm held before line 121 stored the new ones.
mStepUpdate_MeansBeforeUpdate(gmm, ss) ==
  LET n_gaussians == getNGaussians(machines[gmm])
      n_inputs == getNInputs(machines[gmm])
      prior == machines[m_prior_gmm]
      alpha == CacheAlpha(ss, n_gaussians)
      ml_weights == MLWeights(ss, n_gaussians)
      new_weights == NewWeights(alpha, ml_weights, prior.weights)
      gmm1 == IF update_weights THEN setWeights(machines[gmm], new_weights)
              ELSE machines[gmm]
      ml_means == MLMeans(ss, n_gaussians, n_inputs)
      new_means == NewMeans(ss, alpha, ml_means, prior.means)
      gmm2 == IF update_means THEN setMeans(gmm1, new_means) ELSE gmm1
      cache_Exx == Exx(ss, n_gaussians, n_inputs)
      new_variances == NewVariances(ss, alpha, cache_Exx, prior.variances,
                                    prior.means, gmm1.means)
      gmm3 == IF update_variances THEN setVariances(gmm2, new_variances) ELSE gmm2
  IN  /\ m_cache_alpha' = alpha
      /\ IF update_weights
         THEN /\ m_cache_ml_weights' = ml_weights
              /\ m_cache_new_weights' = new_weights
         ELSE UNCHANGED weightCaches
      /\ IF update_means
         THEN /\ m_cache_ml_means' = ml_means
              /\ m_cache_new_means' = new_means
         ELSE UNCHANGED meanCaches
      /\ IF update_means \/ update_variances
         THEN m_cache_prior_means' = prior.means
         ELSE UNCHANGED m_cache_prior_means
      /\ IF update_variances
         THEN /\ m_cache_prior_variances' = prior.variances
              /\ m_cache_Exx' = cache_Exx
              /\ m_cache_means' = gmm1.means
         ELSE UNCHANGED varianceCaches
      /\ machines' = [machines EXCEPT ![gmm] = gmm3]

\* Lines 62-156 with line 121 moved behind the closing brace of line 122: the
\* means are stored whether or not update_means is set.
mStepUpdate_UngatedMeans(gmm, ss) ==
  LET n_gaussians == getNGaussians(machines[gmm])
      n_inputs == getNInputs(machines[gmm])
      prior == machines[m_prior_gmm]
      alpha == CacheAlpha(ss, n_gaussians)
      ml_weights == MLWeights(ss, n_gaussians)
      new_weights == NewWeights(alpha, ml_weights, prior.weights)
      gmm1 == IF update_weights THEN setWeights(machines[gmm], new_weights)
              ELSE machines[gmm]
      ml_means == MLMeans(ss, n_gaussians, n_inputs)
      new_means == NewMeans(ss, alpha, ml_means, prior.means)
      gmm2 == setMeans(gmm1, new_means)
      cache_Exx == Exx(ss, n_gaussians, n_inputs)
      new_variances == NewVariances(ss, alpha, cache_Exx, prior.variances,
                                    prior.means, gmm2.means)
      gmm3 == IF update_variances THEN setVariances(gmm2, new_variances) ELSE gmm2
  IN  /\ m_cache_alpha' = alpha
      /\ IF update_weights
         THEN /\ m_cache_ml_weights' = ml_weights
              /\ m_cache_new_weights' = new_weights
         ELSE UNCHANGED weightCaches
      /\ IF update_means
         THEN /\ m_cache_ml_means' = ml_means
              /\ m_cache_new_means' = new_means
         ELSE UNCHANGED meanCaches
      /\ IF update_means \/ update_variances
         THEN m_cache_prior_means' = prior.means
         ELSE UNCHANGED m_cache_prior_means
      /\ IF update_variances
         THEN /\ m_cache_prior_variances' = prior.variances
              /\ m_cache_Exx' = cache_Exx
              /\ m_cache_means' = gmm2.means
         ELSE UNCHANGED varianceCaches
      /\ machines' = [machines EXCEPT ![gmm] = gmm3]

\* Lines 62-156 reading the prior parameters (lines 81, 106, 130, 140) from gmm
\* instead of m_prior_gmm: the parameters gmm holds are blended with the data.
mStepUpdate_PriorFromGmm(gmm, ss) ==
  LET n_gaussians == getNGaussians(machines[gmm])
      n_inputs == getNInputs(machines[gmm])
      prior == machines[gmm]
      alpha == CacheAlpha(ss, n_gaussians)
      ml_weights == MLWeights(ss, n_gaussians)
      new_weights == NewWeights(alpha, ml_weights, prior.weights)
      gmm1 == IF update_weights THEN setWeights(machines[gmm], new_weights)
              ELSE machines[gmm]
      ml_means == MLMeans(ss, n_gaussians, n_inputs)
      new_means == NewMeans(ss, alpha, ml_means, prior.means)
      gmm2 == IF update_means THEN setMeans(gmm1, new_means) ELSE gmm1
      cache_Exx == Exx(ss, n_gaussians, n_inputs)
      new_variances == NewVariances(ss, alpha, cache_Exx, prior.variances,
                                    prior.means, gmm2.means)
      gmm3 == IF update_variances THEN setVariances(gmm2, new_variances) ELSE gmm2
  IN  /\ m_cache_alpha' = alpha
      /\ IF update_weights
         THEN /\ m_cache_ml_weights' = ml_weights
              /\ m_cache_new_weights' = new_weights
         ELSE UNCHANGED weightCaches
      /\ IF update_means
         THEN /\ m_cache_ml_means' = ml_means
              /\ m_cache_new_means' = new_means
         ELSE UNCHANGED meanCaches
      /\ IF update_means \/ update_variances
         THEN m_cache_prior_means' = prior.means
         ELSE UNCHANGED m_cache_prior_means
      /\ IF update_variances
         THEN /\ m_cache_prior_variances' = prior.variances
              /\ m_cache_Exx' = cache_Exx
              /\ m_cache_means' = gmm2.means
         ELSE UNCHANGED varianceCaches
      /\ machines' = [machines EXCEPT ![gmm] = gmm3]

\* Lines 62-156, with the statistics read as ss.
mStepUpdate(gmm, ss) ==
  LET n_gaussians == getNGaussians(machines[gmm])
      n_inputs == getNInputs(machines[gmm])
      prior == machines[m_prior_gmm]
      alpha == CacheAlpha(ss, n_gaussians)
      ml_weights == MLWeights(ss, n_gaussians)
      new_weights == NewWeights(alpha, ml_weights, prior.weights)
      gmm1 == IF update_weights THEN setWeights(machines[gmm], new_weights)
              ELSE machines[gmm]
      ml_means == MLMeans(ss, n_gaussians, n_inputs)
      new_means == NewMeans(ss, alpha, ml_means, prior.means)
      gmm2 == IF update_means THEN setMeans(gmm1, new_means) ELSE gmm1
      cache_Exx == Exx(ss, n_gaussians, n_inputs)
      new_variances == NewVariances(ss, alpha, cache_Exx, prior.variances,
                                    prior.means, gmm2.means)
      gmm3 == IF update_variances THEN setVariances(gmm2, new_variances) ELSE gmm2
  IN  /\ m_cache_alpha' = alpha
      /\ IF update_weights
         THEN /\ m_cache_ml_weights' = ml_weights
              /\ m_cache_new_weights' = new_weights
         ELSE UNCHANGED weightCaches
      /\ IF update_means
         THEN /\ m_cache_ml_means' = ml_means
              /\ m_cache_new_means' = new_means
         ELSE UNCHANGED meanCaches
      /\ IF update_means \/ update_variances
         THEN m_cache_prior_means' = prior.means
         ELSE UNCHANGED m_cache_prior_means
      /\ IF update_variances
         THEN /\ m_cache_prior_variances' = prior.variances
              /\ m_cache_Exx' = cache_Exx
              /\ m_cache_means' = gmm2.means
         ELSE UNCHANGED varianceCaches
      /\ machines' = [machines EXCEPT ![gmm] = gmm3]

\* Lines 58-60 placed after the updates instead of before them: the weights
\* of gmm are already overwritten when the exception leaves.
mStepNoPrior_LateCheck(gmm) ==
  /\ ret' = "NoPriorGMM"
  /\ machines' = [machines EXCEPT ![gmm] =
                    setWeights(@, [i \in 1..getNGaussians(@) |-> NaN])]
  /\ UNCHANGED <<caches, pc>>

\* Lines 58-60: without a prior, mStep throws before it writes anything.
mStepNoPrior(gmm) ==
  /\ ret' = "NoPriorGMM"
  /\ UNCHANGED <<machines, caches, pc>>

\* Whether mStep reads an array of m_ss at all (lines 70, 78, 102, 134).
ReadsStats ==
  ~m_T3_adaptation \/ update_weights \/ update_means \/ update_variances

mStep(gmm) ==
  /\ pc = "ready"
  /\ IF m_prior_gmm = NULL
     THEN mStepNoPrior(gmm)
     ELSE \/ /\ \E ss \in StatsRead(getNGaussians(machines[gmm]),
                                   getNInputs(machines[gmm])) :
                  mStepUpdate(gmm, ss)
             /\ ret' = "ok"
             /\ pc' = "ready"
          \/ /\ ~StatsSized(m_ss, getNGaussians(machines[gmm]),
                            getNInputs(machines[gmm]))
             /\ ReadsStats
             /\ pc' = "crashed"
             /\ ret' = "SIGSEGV"
             /\ UNCHANGED <<machines, caches>>
  /\ UNCHANGED <<m_prior_gmm, m_ss, config, t3>>

Next ==
  \/ \E p \in PriorObjects \cup {NULL} : setPriorGMM(p)
  \/ \E a \in T3Alphas : setT3MAP(a)
  \/ \E g \in AdaptedObjects : initialization(g)
  \/ \E g \in AdaptedObjects : eStep(g)
  \/ \E g \in AdaptedObjects : mStep(g)

Spec == Init /\ [][Next]_vars

\* ------------------------------------------- repeated M-steps
\* Every vector of occupancies built from the counts an E-step may give to
\* one component.
AllCountVectors(K, r) == [1..K -> FirstCounts(r)]

\* The trainer when its caller is about to run M-steps on one set of
\* statistics: constructed, the adaptation mode chosen, gmm initialized from
\* the prior p0 set at that time, the prior p set now, and an E-step done.
InitAdapting ==
  /\ \E K \in 1..MaxGaussians, D \in 1..MaxInputs, p0 \in PriorObjects :
       machines = [o \in Machines |->
                     IF o = "ubm1" THEN Ubm1(K, D)
                     ELSE IF o = "ubm2" THEN Ubm2(K, D)
                     ELSE IF p0 = "ubm1" THEN Ubm1(K, D) ELSE Ubm2(K, D)]
  /\ \E t \in Tunings :
       /\ relevance_factor = t[1]
       /\ m_mean_var_update_responsibilities_threshold = t[2]
  /\ update_means \in BOOLEAN
  /\ update_variances \in BOOLEAN
  /\ update_weights \in BOOLEAN
  /\ m_prior_gmm \in PriorObjects
  /\ \/ m_T3_alpha = Zero /\ m_T3_adaptation = FALSE
     \/ m_T3_alpha \in T3Alphas /\ m_T3_adaptation = TRUE
  /\ m_ss \in {StatsOf(ns, getNInputs(machines["gmm"]), relevance_factor) :
                 ns \in AllCountVectors(getNGaussians(machines["gmm"]),
                                        relevance_factor)}
  /\ m_cache_alpha = <<>>
  /\ m_cache_ml_weights = <<>>
  /\ m_cache_new_weights = <<>>
  /\ m_cache_ml_means = <<>>
  /\ m_cache_prior_means = <<>>
  /\ m_cache_new_means = <<>>
  /\ m_cache_prior_variances = <<>>
  /\ m_cache_Exx = <<>>
  /\ m_cache_means = <<>>
  /\ ret = "ok"
  /\ pc = "ready"

\* The caller runs mStep again and again, without an E-step in between.
NextAdapting == \E g \in AdaptedObjects : mStep(g)

SpecAdapting == InitAdapting /\ [][NextAdapting]_vars

\* ------------------------------------------------------------ claims
NonNegative(v) == v = Zero \/ Less(Zero, v)
Positive(v) == Less(Zero, v)
Shape(gmm) == <<getNGaussians(machines[gmm]), getNInputs(machines[gmm])>>
Sized(gmm) == StatsSized(m_ss, Shape(gmm)[1], Shape(gmm)[2])
Gaussians(gmm) == 1..Shape(gmm)[1]
Inputs(gmm) == 1..Shape(gmm)[2]

\* C1: mStep on a trainer whose prior pointer is still null throws NoPriorGMM
\* and leaves every parameter of every machine as it was.
C1_MStepWithoutPrior ==
  [][\A g \in AdaptedObjects :
       (m_prior_gmm = NULL /\ mStep(g)) =>
         (ret' = "NoPriorGMM" /\ machines' = machines)]_vars

C1_Witness ==
  /\ ret = "NoPriorGMM"
  /\ m_prior_gmm = NULL
  /\ machines["gmm"] = InitialModel(2, 1)

\* What claim C2 calls valid inputs of mStep(g).
ValidWeightInputs(g) ==
  /\ m_prior_gmm # NULL
  /\ Sized(g)
  /\ \A i \in Gaussians(g) : NonNegative(machines[m_prior_gmm].weights[i])
  /\ SumSeq(machines[m_prior_gmm].weights) = One
  /\ \A i \in Gaussians(g) : NonNegative(m_ss.n[i])
  /\ m_ss.T = SumSeq(m_ss.n)
  /\ Positive(m_ss.T)
  /\ Positive(relevance_factor)

\* C2: after an mStep with update_weights on valid inputs the weights of the
\* adapted machine sum to 1.
C2_WeightsSumToOne ==
  [][\A g \in AdaptedObjects :
       (update_weights /\ ValidWeightInputs(g) /\ mStep(g)) =>
         SumSeq(machines'[g].weights) = One]_vars

\* Where the cast of line 78 keeps the value of T, the weights do sum to 1:
\* the sum claimed by C2 is lost through that cast alone.
WeightsSumToOneWithinInt32 ==
  [][\A g \in AdaptedObjects :
       (/\ update_weights
        /\ ValidWeightInputs(g)
        /\ CastInt32(m_ss.T) = m_ss.T
        /\ mStep(g)) =>
         SumSeq(machines'[g].weights) = One]_vars

\* C3: with update_means and update_variances and a threshold >= 0, a Gaussian
\* of occupancy 0 leaves mStep with the mean and the variance of the prior.
C3_ZeroOccupancyKeepsPrior ==
  [][\A g \in AdaptedObjects :
       (/\ m_prior_gmm # NULL
        /\ Sized(g)
        /\ update_means
        /\ update_variances
        /\ NonNegative(m_mean_var_update_responsibilities_threshold)
        /\ mStep(g)) =>
         \A i \in Gaussians(g) :
           m_ss.n[i] = Zero =>
             /\ machines'[g].means[i] = machines[m_prior_gmm].means[i]
             /\ machines'[g].variances[i] = machines[m_prior_gmm].variances[i]]_vars

\* The mean and the variance the fallback branches of lines 113 and 147 store
\* for Gaussian i, given the means gmm holds when the variances are computed.
FallbackMean(i) == machines[m_prior_gmm].means[i]
FallbackVariance(i, means) ==
  [j \in 1..Len(means[i]) |->
     Sub(Add(machines[m_prior_gmm].variances[i][j], machines[m_prior_gmm].means[i][j]),
         Pow2(means[i][j]))]

C5_SetPriorGMM ==
  [][\A p \in PriorObjects \cup {NULL} :
       setPriorGMM(p) =>
         IF p = NULL
         THEN ret' = "false" /\ m_prior_gmm' = m_prior_gmm
         ELSE ret' = "true" /\ m_prior_gmm' = p]_vars

C5_Witness ==
  /\ ret = "false"
  /\ m_prior_gmm = "ubm2"

\* C6: initialization on a trainer whose prior pointer is still null throws
\* NoPriorGMM and leaves every machine as it was.
C6_InitializationWithoutPrior ==
  [][\A g \in AdaptedObjects :
       (m_prior_gmm = NULL /\ initialization(g)) =>
         (ret' = "NoPriorGMM" /\ machines' = machines)]_vars

\* C7: with a prior set, initialization(gmm) leaves gmm with the weights, means
\* and variances of the prior and the statistics with the shape of gmm.
C7_InitializationCopiesPrior ==
  [][\A g \in AdaptedObjects :
       (m_prior_gmm # NULL /\ initialization(g)) =>
         /\ machines'[g].weights = machines[m_prior_gmm].weights
         /\ machines'[g].means = machines[m_prior_gmm].means
         /\ machines'[g].variances = machines[m_prior_gmm].variances
         /\ StatsSized(m_ss', getNGaussians(machines[g]), getNInputs(machines[g]))]_vars

C7_Witness ==
  /\ m_prior_gmm = "ubm2"
  /\ machines["gmm"] = machines["ubm2"]
  /\ machines["gmm"] # InitialModel(Shape("gmm")[1], Shape("gmm")[2])
  /\ Sized("gmm")
  /\ m_ss.T = Zero
  /\ ret = "ok"

\* C8: no call of the trainer changes a parameter of a machine that can be its
\* prior.
C8_PriorReadOnly ==
  [][\A o \in PriorObjects : machines'[o] = machines[o]]_vars

C8_Witness ==
  /\ m_prior_gmm = "ubm2"
  /\ ret = "ok"
  /\ m_cache_new_weights # <<>>
  /\ m_cache_new_means # <<>>
  /\ m_cache_Exx # <<>>
  /\ machines["gmm"].means = m_cache_new_means
  /\ machines["ubm2"] = Ubm2(Shape("gmm")[1], Shape("gmm")[2])

\* The statistics claim C9 calls consistent.
ConsistentStats(g) ==
  /\ Sized(g)
  /\ \A i \in Gaussians(g) :
       /\ NonNegative(m_ss.n[i])
       /\ \A j \in Inputs(g) :
            /\ NonNegative(m_ss.sumPxx[i][j])
            /\ ~Less(Mul(m_ss.sumPxx[i][j], m_ss.n[i]), Pow2(m_ss.sumPx[i][j]))

\* C9: after an mStep with update_variances, from a prior with positive
\* variances and consistent statistics, every variance of gmm is positive.
C9_VariancesPositive ==
  [][\A g \in AdaptedObjects :
       (/\ m_prior_gmm # NULL
        /\ update_variances
        /\ ConsistentStats(g)
        /\ \A i \in Gaussians(g), j \in Inputs(g) :
             Positive(machines[m_prior_gmm].variances[i][j])
        /\ mStep(g)) =>
         \A i \in Gaussians(g), j \in Inputs(g) :
           Positive(machines'[g].variances[i][j])]_vars

\* The inputs of scenario A: one Gaussian, one dimension, prior (1, 0, 1),
\* relevance factor 16, threshold 0, no fixed coefficient, n = T = sumPx = 16,
\* sumPxx = 32, every update requested.
ScenarioA ==
  /\ m_prior_gmm # NULL
  /\ machines[m_prior_gmm] =
       [weights |-> <<One>>, means |-> <<<<Zero>>>>, variances |-> <<<<One>>>>]
  /\ relevance_factor = Dbl(16)
  /\ m_mean_var_update_responsibilities_threshold = Zero
  /\ ~m_T3_adaptation
  /\ m_ss = [n |-> <<Dbl(16)>>, T |-> Dbl(16),
             sumPx |-> <<<<Dbl(16)>>>>, sumPxx |-> <<<<Dbl(32)>>>>]
  /\ update_weights /\ update_means /\ update_variances

ScenarioAResult ==
  [weights |-> <<One>>, means |-> <<<<Frac(1, 2)>>>>, variances |-> <<<<Frac(5, 4)>>>>]

\* C10: in scenario A one mStep on a machine initialized from the prior gives
\* alpha = 1/2, mean 1/2, variance 5/4 and weight 1.
C10_ScenarioA ==
  [][\A g \in AdaptedObjects :
       (ScenarioA /\ machines[g] = machines[m_prior_gmm] /\ mStep(g)) =>
         /\ m_cache_alpha' = <<Frac(1, 2)>>
         /\ machines'[g] = ScenarioAResult]_vars

C10_Witness ==
  /\ ScenarioA
  /\ m_cache_alpha = <<Frac(1, 2)>>
  /\ machines["gmm"] = ScenarioAResult

\* The coefficient and the mean that claim C11 states for Gaussian k and
\* dimension d, from the statistics, the prior and the configuration alone.
StatedAlpha(k) ==
  IF m_T3_adaptation THEN m_T3_alpha
  ELSE Div(m_ss.n[k], Add(m_ss.n[k], relevance_factor))
StatedMean(k, d) ==
  IF Less(m_ss.n[k], m_mean_var_update_responsibilities_threshold)
  THEN machines[m_prior_gmm].means[k][d]
  ELSE Add(Mul(StatedAlpha(k), Div(m_ss.sumPx[k][d], m_ss.n[k])),
           Mul(Sub(One, StatedAlpha(k)), machines[m_prior_gmm].means[k][d]))

\* C11: after an mStep with update_means, every mean of gmm is the prior mean
\* where n[k] < threshold and alpha[k]*sumPx[k][d]/n[k] + (1-alpha[k])*prior
\* mean elsewhere, alpha[k] being the fixed coefficient in fixed-coefficient
\* mode and n[k]/(n[k]+relevance_factor) otherwise, whatever gmm held before.
C11_AdaptedMeans ==
  [][\A g \in AdaptedObjects :
       (m_prior_gmm # NULL /\ Sized(g) /\ update_means /\ mStep(g)) =>
         \A k \in Gaussians(g), d \in Inputs(g) :
           machines'[g].means[k][d] = StatedMean(k, d)]_vars

C11_Witness ==
  /\ m_prior_gmm = "ubm2"
  /\ update_means
  /\ m_T3_adaptation
  /\ m_mean_var_update_responsibilities_threshold = Dbl(16)
  /\ Sized("gmm")
  /\ m_ss.n = <<Dbl(8), Dbl(16)>>
  /\ m_cache_ml_means = <<<<Dbl(2)>>, <<One>>>>
  /\ machines["gmm"].means = <<<<Dbl(2)>>, <<Dbl(2)>>>>
  /\ machines["gmm"].means = m_cache_new_means

\* The mean gmm holds once the mean update of this call is over, and the
\* variance claim C12 states for Gaussian k and dimension d.
MeanAfterUpdate(g, k, d) ==
  IF update_means THEN StatedMean(k, d) ELSE machines[g].means[k][d]
StatedVariance(g, k, d) ==
  IF Less(m_ss.n[k], m_mean_var_update_responsibilities_threshold)
  THEN Sub(Add(machines[m_prior_gmm].variances[k][d],
               machines[m_prior_gmm].means[k][d]),
           Pow2(MeanAfterUpdate(g, k, d)))
  ELSE Sub(Add(Mul(StatedAlpha(k), Div(m_ss.sumPxx[k][d], m_ss.n[k])),
               Mul(Sub(One, StatedAlpha(k)),
                   Add(machines[m_prior_gmm].variances[k][d],
                       machines[m_prior_gmm].means[k][d]))),
           Pow2(MeanAfterUpdate(g, k, d)))

StatedBlend(g) ==
  [k \in Gaussians(g) |->
     Add(Mul(StatedAlpha(k), Div(m_ss.n[k], m_ss.T)),
         Mul(Sub(One, StatedAlpha(k)), machines[m_prior_gmm].weights[k]))]
StatedWeights(g) ==
  [k \in Gaussians(g) |-> Div(StatedBlend(g)[k], SumSeq(StatedBlend(g)))]

\* C13: after an mStep with update_weights and T > 0, the weights of gmm are
\* u[k] / sum of u with the maximum likelihood weight n[k]/T taken with T
\* itself, also for T at or above 2^31.
C13_WeightsDivideByT ==
  [][\A g \in AdaptedObjects :
       (/\ m_prior_gmm # NULL
        /\ Sized(g)
        /\ update_weights
        /\ Positive(m_ss.T)
        /\ mStep(g)) =>
         machines'[g].weights = StatedWeights(g)]_vars

\* Where the cast of line 78 keeps the value of T, the weights are the stated
\* ones: they differ through that cast alone.
WeightsDivideByTWithinInt32 ==
  [][\A g \in AdaptedObjects :
       (/\ m_prior_gmm # NULL
        /\ Sized(g)
        /\ update_weights
        /\ Positive(m_ss.T)
        /\ CastInt32(m_ss.T) = m_ss.T
        /\ mStep(g)) =>
         machines'[g].weights = StatedWeights(g)]_vars

\* C15: a successful mStep leaves the weights of gmm alone without
\* update_weights, its means without update_means and its variances without
\* update_variances; and no mStep changes the statistics, the relevance
\* factor, the threshold or the flags.
C15_FlagsGateOwnParameter ==
  [][\A g \in AdaptedObjects :
       mStep(g) =>
         /\ ret' = "ok" =>
              /\ ~update_weights => machines'[g].weights = machines[g].weights
              /\ ~update_means => machines'[g].means = machines[g].means
              /\ ~update_variances => machines'[g].variances = machines[g].variances
         /\ m_ss' = m_ss
         /\ config' = config]_vars

C15_Witness ==
  /\ ret = "ok"
  /\ m_prior_gmm = "ubm2"
  /\ ~update_weights
  /\ update_means
  /\ ~update_variances
  /\ Sized("gmm")
  /\ Positive(m_ss.T)
  /\ m_cache_new_means # <<>>
  /\ m_cache_ml_weights = <<>>
  /\ m_cache_Exx = <<>>
  /\ machines["gmm"].means = m_cache_new_means
  /\ machines["gmm"].means # machines["ubm2"].means
  /\ machines["gmm"].weights = machines["ubm2"].weights
  /\ machines["gmm"].variances = machines["ubm2"].variances

\* C16: a prior pointer that is set stays set through every call, and mStep
\* throws NoPriorGMM exactly when the pointer is still null, that is before the
\* first setPriorGMM with a non-null argument.
C16_NeverUnconfigured ==
  [][/\ m_prior_gmm # NULL => m_prior_gmm' # NULL
     /\ \A g \in AdaptedObjects :
          mStep(g) => (ret' = "NoPriorGMM" <=> m_prior_gmm = NULL)]_vars

C16_Witness ==
  /\ m_prior_gmm = "ubm1"
  /\ ret = "false"
  /\ m_cache_alpha # <<>>
  /\ m_cache_prior_means = machines["ubm2"].means

\* C14: an mStep that follows a successful mStep on the same gmm, with the
\* same statistics (every n[k] > 0), prior and flags, leaves the weights, means
\* and variances of gmm as the first one left them.  Under SpecAdapting every
\* step is an mStep on unchanged statistics, and m_cache_alpha is filled as
\* soon as one of them has succeeded.
C14_MStepIdempotent ==
  [][\A g \in AdaptedObjects :
       (/\ m_cache_alpha # <<>>
        /\ \A k \in Gaussians(g) : Positive(m_ss.n[k])
        /\ mStep(g)) =>
         machines'[g] = machines[g]]_vars

C14_Witness ==
  /\ m_cache_alpha # <<>>
  /\ m_prior_gmm = "ubm2"
  /\ update_weights /\ update_means /\ update_variances
  /\ ~m_T3_adaptation
  /\ m_ss.n = <<Dbl(8), Dbl(16)>>
  /\ machines["gmm"].means = m_cache_new_means
  /\ machines["gmm"].weights = m_cache_new_weights
  /\ machines["gmm"].variances = NewVariances(m_ss, m_cache_alpha, m_cache_Exx,
                                             m_cache_prior_variances,
                                             m_cache_prior_means, m_cache_means)
  /\ machines["gmm"] # machines["ubm2"]
====
